---- MODULE Spec2Model ----
(***************************************************************************)
(* The memory subsystem of yui_core: the SQLite store (DatabaseManager),   *)
(* the MemoryManager that fans writes out to the store and to the per-user *)
(* Chroma collection, and the ConversationManager that drives it.          *)
(*                                                                         *)
(* Strings the code inspects character by character (user names, message   *)
(* contents, search keywords) are tuples of one-character strings; opaque  *)
(* strings (session ids, roles, personality names, emotion labels) are     *)
(* TLA+ strings.  Python's None / SQL NULL is None for string columns and  *)
(* the empty tuple for the nullable ended_at column.                       *)
(***************************************************************************)
EXTENDS Integers, Sequences, FiniteSets, TLC

VARIABLES
    clock,        \* the wall clock read by datetime.now() and CURRENT_TIMESTAMP
    db,           \* data/yui_memory.db: conversations, sessions, user_profiles
    collections,  \* the Chroma client: collection name -> fragments
    mm,           \* the manager instances (ConversationManager + MemoryManager)
    nextUuid,     \* how many uuid4() values have been drawn
    nsaves,       \* history: completed save_message calls per session id since its row exists
    last          \* the last operation: its name, arguments, outcome

vars == <<clock, db, collections, mm, nextUuid, nsaves, last>>

----------------------------------------------------------------------------
(* Bounds *)

MaxClock == 1
MaxRows == 2
MaxUuid == 2
TicksPerSecond == 1

----------------------------------------------------------------------------
(* Values *)

None == "None"
NullTs == <<>>
Some(t) == <<t>>

Uuids == <<"u1", "u2", "u3", "u4">>
GivenIds == {"g1"}
Managers == {1, 2}

UserAl == <<"A", "l">>
Useral == <<"a", "l">>
UserBo == <<"B", "o">>
Users == {UserAl, Useral, UserBo}

Roles == {"user", "assistant"}
PersonalityArgs == {"yui", "Friday"}
Personalities == {"Yui", "Friday"}
SessionIdArgs == GivenIds \cup {None}
AllSessionIds == GivenIds \cup {Uuids[k] : k \in DOMAIN Uuids}
Emotions == {"joy"}
Hello == <<"p", "i">>
Contents == {Hello, <<"P", "a">>}
Reply == <<"O", "k">>
Keywords == {<<"p">>, <<"_">>}
Limits == {1, 3}

Min(a, b) == IF a < b THEN a ELSE b

Reverse(s) == [i \in 1..Len(s) |-> s[Len(s) + 1 - i]]

----------------------------------------------------------------------------
(* Character-level conversions *)

(* str.lower() on one character of the alphabet in use. *)
LowerChar(c) ==
    CASE c = "A" -> "a"
      [] c = "B" -> "b"
      [] c = "O" -> "o"
      [] c = "P" -> "p"
      [] OTHER -> c

Lower(s) == [i \in 1..Len(s) |-> LowerChar(s[i])]

(* str.replace(' ', '_') *)
ReplaceSpace(s) == [i \in 1..Len(s) |-> IF s[i] = " " THEN "_" ELSE s[i]]

(* f"memories_{self.user_name.lower().replace(' ', '_')}" *)
CollectionName(user_name) == <<"memories_">> \o ReplaceSpace(Lower(user_name))

(* SQLite's LIKE: % matches any run, _ any one character, ASCII letters
   compare case-insensitively. *)
RECURSIVE LikeMatch(_, _)
LikeMatch(pat, str) ==
    IF pat = <<>> THEN str = <<>>
    ELSE IF Head(pat) = "%"
         THEN LikeMatch(Tail(pat), str)
              \/ (str # <<>> /\ LikeMatch(pat, Tail(str)))
         ELSE /\ str # <<>>
              /\ (Head(pat) = "_" \/ LowerChar(Head(pat)) = LowerChar(Head(str)))
              /\ LikeMatch(Tail(pat), Tail(str))

----------------------------------------------------------------------------
(* The clock *)

(* A clock reading now is a count of ticks, the resolution of
   datetime.now(); ISO-8601 strings of one fixed format compare as TEXT in
   the order of the instants they denote, so a timestamp column holds the
   reading itself. *)

(* SQLite's CURRENT_TIMESTAMP at clock reading now: whole seconds. *)
CurrentTimestamp(now) == now \div TicksPerSecond

----------------------------------------------------------------------------
(* DatabaseManager: pure operators on the store d; each returns the new
   store, and where the code can raise, whether it raised. *)

EmptyDb == [conversations |-> <<>>, sessions |-> <<>>, user_profiles |-> <<>>]

SessionIndices(d, session_id) ==
    {i \in DOMAIN d.sessions : d.sessions[i].session_id = session_id}

(* All orders in which ORDER BY timestamp DESC may list the rows at the
   indices S of table t: the order of rows with equal timestamps is not
   determined by the query. *)
OrderedDesc(t, S) ==
    {o \in [1..Cardinality(S) -> S] :
        /\ \A i, j \in DOMAIN o : i # j => o[i] # o[j]
        /\ \A i, j \in DOMAIN o : i < j => t[o[i]].timestamp >= t[o[j]].timestamp}

(* Variant: the counter follows user-role messages only. *)
DbSaveMessageUserOnly(d, now, session_id, user_name, personality, role, content, emotion) ==
    IF session_id = None
    THEN [db |-> d, raised |-> TRUE]
    ELSE [db |-> [d EXCEPT
                    !.conversations = Append(@,
                        [session_id |-> session_id, user_name |-> user_name,
                         personality |-> personality, role |-> role,
                         content |-> content, timestamp |-> now,
                         emotion |-> emotion]),
                    !.sessions = [i \in DOMAIN @ |->
                        IF @[i].session_id = session_id /\ role = "user"
                        THEN [@[i] EXCEPT !.message_count = @ + 1]
                        ELSE @[i]]],
          raised |-> FALSE]

(* save_message: INSERT INTO conversations, UPDATE sessions SET message_count
   = message_count + 1 WHERE session_id = ?, commit.  A NULL session_id
   violates NOT NULL and raises sqlite3.IntegrityError before anything is
   written. *)
DbSaveMessage(d, now, session_id, user_name, personality, role, content, emotion) ==
    IF session_id = None
    THEN [db |-> d, raised |-> TRUE]
    ELSE [db |-> [d EXCEPT
                    !.conversations = Append(@,
                        [session_id |-> session_id, user_name |-> user_name,
                         personality |-> personality, role |-> role,
                         content |-> content, timestamp |-> now,
                         emotion |-> emotion]),
                    !.sessions = [i \in DOMAIN @ |->
                        IF @[i].session_id = session_id
                        THEN [@[i] EXCEPT !.message_count = @ + 1]
                        ELSE @[i]]],
          raised |-> FALSE]

HistoryRow(r) ==
    [role |-> r.role, content |-> r.content, timestamp |-> r.timestamp,
     emotion |-> r.emotion]

(* get_session_history: SELECT ... WHERE session_id = ? ORDER BY timestamp
   DESC LIMIT ?, then reversed.  The set of lists the call may return. *)
GetSessionHistory(d, session_id, limit) ==
    LET S == {i \in DOMAIN d.conversations :
                 d.conversations[i].session_id = session_id}
        n == Min(limit, Cardinality(S))
    IN  {Reverse([k \in 1..n |-> HistoryRow(d.conversations[o[k]])]) :
            o \in OrderedDesc(d.conversations, S)}

(* Variant: sessions.session_id without its UNIQUE constraint. *)
CreateSessionNoCheck(d, now, session_id, user_name, personality) ==
    [d EXCEPT !.sessions = Append(@,
        [session_id |-> session_id, user_name |-> user_name,
         personality |-> personality, started_at |-> CurrentTimestamp(now),
         ended_at |-> NullTs, message_count |-> 0])]

(* create_session: INSERT INTO sessions; the IntegrityError of a duplicate
   (UNIQUE) or NULL (NOT NULL) session_id is swallowed. *)
CreateSession(d, now, session_id, user_name, personality) ==
    IF session_id = None \/ SessionIndices(d, session_id) # {}
    THEN d
    ELSE [d EXCEPT !.sessions = Append(@,
            [session_id |-> session_id, user_name |-> user_name,
             personality |-> personality, started_at |-> CurrentTimestamp(now),
             ended_at |-> NullTs, message_count |-> 0])]

(* Variant: ending a session also erases its messages. *)
EndSessionPurge(d, now, session_id) ==
    [d EXCEPT !.sessions = [i \in DOMAIN @ |->
                IF @[i].session_id = session_id
                THEN [@[i] EXCEPT !.ended_at = Some(CurrentTimestamp(now))]
                ELSE @[i]],
              !.conversations = SelectSeq(@, LAMBDA r : r.session_id # session_id)]

(* end_session: UPDATE sessions SET ended_at = CURRENT_TIMESTAMP WHERE
   session_id = ? *)
EndSession(d, now, session_id) ==
    [d EXCEPT !.sessions = [i \in DOMAIN @ |->
        IF @[i].session_id = session_id
        THEN [@[i] EXCEPT !.ended_at = Some(CurrentTimestamp(now))]
        ELSE @[i]]]

(* json.dumps of the preference dicts in use. *)
EmptyPreferences == "{}"
PreferenceArgs == {"{\"tone\": \"warm\"}"}

(* Variant: the profile INSERT without the UNIQUE test. *)
GetOrCreateUserProfileAlwaysInsert(d, now, user_name) ==
    [d EXCEPT !.user_profiles = Append(@,
        [user_name |-> user_name, preferences |-> "{}",
         created_at |-> CurrentTimestamp(now), last_seen |-> CurrentTimestamp(now)])]

(* get_or_create_user_profile: insert a profile with empty preferences, or
   update last_seen of the existing one. *)
GetOrCreateUserProfile(d, now, user_name) ==
    IF \E i \in DOMAIN d.user_profiles : d.user_profiles[i].user_name = user_name
    THEN [d EXCEPT !.user_profiles = [i \in DOMAIN @ |->
            IF @[i].user_name = user_name
            THEN [@[i] EXCEPT !.last_seen = CurrentTimestamp(now)]
            ELSE @[i]]]
    ELSE [d EXCEPT !.user_profiles = Append(@,
            [user_name |-> user_name, preferences |-> "{}",
             created_at |-> CurrentTimestamp(now), last_seen |-> CurrentTimestamp(now)])]

(* The dict get_or_create_user_profile returns: the row it has just
   inserted, or the row as fetched before last_seen is updated. *)
GetOrCreateUserProfileReturn(d, now, user_name) ==
    IF \E i \in DOMAIN d.user_profiles : d.user_profiles[i].user_name = user_name
    THEN d.user_profiles[CHOOSE i \in DOMAIN d.user_profiles :
                            d.user_profiles[i].user_name = user_name]
    ELSE [user_name |-> user_name, preferences |-> EmptyPreferences,
          created_at |-> CurrentTimestamp(now), last_seen |-> CurrentTimestamp(now)]

(* update_user_preferences: UPDATE user_profiles SET preferences = ? WHERE
   user_name = ? *)
UpdateUserPreferences(d, user_name, preferences) ==
    [d EXCEPT !.user_profiles = [i \in DOMAIN @ |->
        IF @[i].user_name = user_name
        THEN [@[i] EXCEPT !.preferences = preferences]
        ELSE @[i]]]

(* The number of session rows of a user with a personality. *)
SessionCount(d, user_name, personality) ==
    Cardinality({i \in DOMAIN d.sessions :
                    /\ d.sessions[i].user_name = user_name
                    /\ d.sessions[i].personality = personality})

(* Variant: the counts and the favorite taken over all users. *)
GetStatsAllUsers(d, user_name) ==
    LET groups == {d.sessions[i].personality : i \in DOMAIN d.sessions}
        count(p) == Cardinality({i \in DOMAIN d.sessions :
                                    d.sessions[i].personality = p})
    IN  {[total_messages |-> Len(d.conversations),
          total_sessions |-> Len(d.sessions),
          favorite_personality |-> f] :
            f \in IF groups = {} THEN {"None"}
                  ELSE {p \in groups : \A q \in groups : count(q) <= count(p)}}

(* get_stats: the COUNT of the user's conversations, the COUNT of the user's
   sessions, and the first row of GROUP BY personality ORDER BY count DESC
   LIMIT 1, or 'None' without sessions.  The set of dicts the call may
   return: the order among personalities of equal count is not determined
   by the query. *)
GetStats(d, user_name) ==
    LET groups == {d.sessions[i].personality :
                      i \in {j \in DOMAIN d.sessions :
                                d.sessions[j].user_name = user_name}}
    IN  {[total_messages |->
              Cardinality({i \in DOMAIN d.conversations :
                              d.conversations[i].user_name = user_name}),
          total_sessions |->
              Cardinality({i \in DOMAIN d.sessions :
                              d.sessions[i].user_name = user_name}),
          favorite_personality |-> f] :
            f \in IF groups = {} THEN {"None"}
                  ELSE {p \in groups :
                          \A q \in groups : SessionCount(d, user_name, q)
                                               <= SessionCount(d, user_name, p)}}

SearchRow(r) ==
    [session_id |-> r.session_id, personality |-> r.personality, role |-> r.role,
     content |-> r.content, timestamp |-> r.timestamp]

(* search_conversations: WHERE user_name = ? AND content LIKE '%keyword%'
   ORDER BY timestamp DESC LIMIT ?.  The set of lists the call may return. *)
SearchConversations(d, user_name, keyword, limit) ==
    LET S == {i \in DOMAIN d.conversations :
                 /\ d.conversations[i].user_name = user_name
                 /\ LikeMatch(<<"%">> \o keyword \o <<"%">>,
                              d.conversations[i].content)}
        n == Min(limit, Cardinality(S))
    IN  {[k \in 1..n |-> SearchRow(d.conversations[o[k]])] :
            o \in OrderedDesc(d.conversations, S)}

UserHistoryRow(r) ==
    [session_id |-> r.session_id, personality |-> r.personality, role |-> r.role,
     content |-> r.content, timestamp |-> r.timestamp, emotion |-> r.emotion]

(* get_user_history: WHERE user_name = ? ORDER BY timestamp DESC LIMIT ?.
   The set of lists the call may return. *)
GetUserHistory(d, user_name, limit) ==
    LET S == {i \in DOMAIN d.conversations :
                 d.conversations[i].user_name = user_name}
        n == Min(limit, Cardinality(S))
    IN  {[k \in 1..n |-> UserHistoryRow(d.conversations[o[k]])] :
            o \in OrderedDesc(d.conversations, S)}

----------------------------------------------------------------------------
(* The Chroma client *)

CollectionNames == {CollectionName(u) : u \in Users}

FragmentIds(coll) == {coll[k].id : k \in DOMAIN coll}

(* collection.add(documents, metadatas, ids): a fragment whose id is already
   in the collection is not added.  indexed_by is history: the user of the
   manager that wrote the fragment. *)
CollectionAdd(coll, id, document, metadata, user_name) ==
    IF id \in FragmentIds(coll)
    THEN coll
    ELSE Append(coll, [id |-> id, document |-> document, metadata |-> metadata,
                       indexed_by |-> user_name])

(* collection.query(query_texts, n_results): up to n_results fragments of the
   collection, ranked by an embedding similarity the model leaves open. *)
CollectionQuery(coll, n_results) ==
    LET n == Min(n_results, Len(coll))
    IN  {[k \in 1..n |-> coll[o[k]]] :
            o \in {f \in [1..n -> DOMAIN coll] :
                      \A i, j \in 1..n : i # j => f[i] # f[j]}}

----------------------------------------------------------------------------
(* personalities *)

(* str.lower() on the personality names in use. *)
LowerName(name) == IF name = "Friday" THEN "friday" ELSE name

(* get_personality(name).name: PERSONALITIES.get(name.lower(), YuiPersonality) *)
GetPersonality(name) ==
    CASE LowerName(name) = "yui" -> "Yui"
      [] LowerName(name) = "friday" -> "Friday"
      [] LowerName(name) = "jarvis" -> "Jarvis"
      [] OTHER -> "Yui"

----------------------------------------------------------------------------
(* MemoryManager: pure operators on the store d, the collections colls and
   the manager's own fields m. *)

(* pc: the position of the manager's connection inside
   DatabaseManager.save_message; txn: <<>> when the connection has no
   uncommitted writes, else <<v>> with v the store as the connection sees
   it, its own uncommitted writes included. handler: where the websocket
   handler that owns the conversation stands ("none": there is none);
   registered: the web application's `conversations` dict holds it.
   conversation_history: the ConversationManager's in-memory list, which no
   store operation reads and which is followed only where add_message is
   an action of its own; added: the messages passed to add_message since
   the construction or the last clear_history. turn: <<>> outside
   send_message, else <<t>> with t the position inside it and its
   locals. *)
NoManager ==
    [state |-> "none", cm |-> FALSE, user_name |-> <<>>, session_id |-> None,
     vector_enabled |-> FALSE, collection |-> <<>>, personality |-> None,
     pc |-> "idle", txn |-> <<>>, handler |-> "none", registered |-> FALSE,
     conversation_history |-> <<>>, added |-> <<>>, turn |-> <<>>]

(* str(uuid.uuid4()) when n values have been drawn before. *)
Uuid4(n) == Uuids[n + 1]

(* __init__: session_id or a fresh uuid; the Chroma client, collection and
   encoder (vec_ok: whether they initialise); the user profile. *)
MMInit(d, now, n, user_name, session_id, vec_ok) ==
    [db |-> GetOrCreateUserProfile(d, now, user_name),
     nextUuid |-> IF session_id = None THEN n + 1 ELSE n,
     m |-> [state |-> "live", cm |-> FALSE, user_name |-> user_name,
            session_id |-> IF session_id = None THEN Uuid4(n) ELSE session_id,
            vector_enabled |-> vec_ok,
            collection |-> IF vec_ok THEN CollectionName(user_name) ELSE <<>>,
            personality |-> None, pc |-> "idle", txn |-> <<>>,
            handler |-> "none", registered |-> FALSE,
            conversation_history |-> <<>>, added |-> <<>>, turn |-> <<>>]]

(* Variant: a failure of the vector setup fails the construction. *)
MMConstructStrict(d, now, n, user_name, session_id, db_ok, vec_ok) ==
    IF db_ok /\ vec_ok
    THEN MMInit(d, now, n, user_name, session_id, vec_ok) @@ [raised |-> FALSE]
    ELSE [db |-> d, nextUuid |-> IF session_id = None THEN n + 1 ELSE n,
          m |-> NoManager, raised |-> TRUE]

(* __init__ with its failures: DatabaseManager() (db_ok: it opens the
   store) stands outside the try block and its exception leaves the
   constructor; the Chroma client, collection and encoder stand inside
   it. *)
MMConstruct(d, now, n, user_name, session_id, db_ok, vec_ok) ==
    IF db_ok
    THEN MMInit(d, now, n, user_name, session_id, vec_ok) @@ [raised |-> FALSE]
    ELSE [db |-> d, nextUuid |-> IF session_id = None THEN n + 1 ELSE n,
          m |-> NoManager, raised |-> TRUE]

(* f"{self.session_id}_{datetime.now().timestamp()}" *)
FragmentId(session_id, now) == <<session_id, now>>

FragmentMetadata(session_id, personality, now, emotion) ==
    [session_id |-> session_id, personality |-> personality, timestamp |-> now,
     emotion |-> IF emotion = None THEN "neutral" ELSE emotion]

(* Variant: the index write without the role test. *)
MMSaveMessageAnyRole(d, colls, m, now, role, content, personality, emotion, vfail) ==
    LET r == DbSaveMessage(d, now, m.session_id, m.user_name, personality,
                           role, content, emotion)
    IN  IF r.raised
        THEN [db |-> d, collections |-> colls, raised |-> TRUE]
        ELSE [db |-> r.db,
              collections |->
                  IF m.vector_enabled /\ ~vfail
                  THEN [colls EXCEPT ![m.collection] =
                          CollectionAdd(@, FragmentId(m.session_id, now), content,
                              FragmentMetadata(m.session_id, personality, now, emotion),
                              m.user_name)]
                  ELSE colls,
              raised |-> FALSE]

(* save_message: db.save_message (its exception propagates), then, if
   vector_enabled and role == "user", collection.add inside try/except
   (vfail: the add raises). *)
MMSaveMessage(d, colls, m, now, role, content, personality, emotion, vfail) ==
    LET r == DbSaveMessage(d, now, m.session_id, m.user_name, personality,
                           role, content, emotion)
    IN  IF r.raised
        THEN [db |-> d, collections |-> colls, raised |-> TRUE]
        ELSE [db |-> r.db,
              collections |->
                  IF m.vector_enabled /\ role = "user" /\ ~vfail
                  THEN [colls EXCEPT ![m.collection] =
                          CollectionAdd(@, FragmentId(m.session_id, now), content,
                              FragmentMetadata(m.session_id, personality, now, emotion),
                              m.user_name)]
                  ELSE colls,
              raised |-> FALSE]

(* Variant: the index write comes first, whatever the store does. *)
MMSaveMessageStoreIndexFirst(d, colls, m, now, role, content, personality, emotion, dbfail, vfail) ==
    LET r == MMSaveMessage(d, colls, m, now, role, content, personality, emotion,
                           vfail)
    IN  IF dbfail
        THEN [db |-> d, collections |-> r.collections, raised |-> TRUE]
        ELSE r

(* save_message where the store may be unreachable (dbfail): the exception
   of db.save_message leaves the method at its first statement. *)
MMSaveMessageStore(d, colls, m, now, role, content, personality, emotion, dbfail, vfail) ==
    IF dbfail
    THEN [db |-> d, collections |-> colls, raised |-> TRUE]
    ELSE MMSaveMessage(d, colls, m, now, role, content, personality, emotion, vfail)

(* The memory dict search_semantic_memory builds from a query hit. *)
MemoryOf(f) ==
    [content |-> f.document, session_id |-> f.metadata.session_id,
     personality |-> f.metadata.personality, timestamp |-> f.metadata.timestamp,
     emotion |-> f.metadata.emotion]

KeywordOutcomes(d, m, query, n_results, vec_called) ==
    {[result |-> r, raised |-> FALSE, vec_called |-> vec_called, hits |-> <<>>] :
        r \in SearchConversations(d, m.user_name, query, n_results)}

(* Variant: a failing query propagates instead of falling back. *)
MMSearchSemanticMemoryNoFallback(d, colls, m, query, n_results, vfail) ==
    IF ~m.vector_enabled
    THEN KeywordOutcomes(d, m, query, n_results, FALSE)
    ELSE IF vfail
         THEN {[result |-> <<>>, raised |-> TRUE, vec_called |-> TRUE, hits |-> <<>>]}
         ELSE {[result |-> [k \in DOMAIN h |-> MemoryOf(h[k])], raised |-> FALSE,
                vec_called |-> TRUE, hits |-> h] :
                  h \in CollectionQuery(colls[m.collection], n_results)}

(* search_semantic_memory: keyword search when the vector store is disabled
   or its query raises (vfail), the query's hits otherwise.  The set of
   outcomes of the call. *)
MMSearchSemanticMemory(d, colls, m, query, n_results, vfail) ==
    IF ~m.vector_enabled
    THEN KeywordOutcomes(d, m, query, n_results, FALSE)
    ELSE IF vfail
         THEN KeywordOutcomes(d, m, query, n_results, TRUE)
         ELSE {[result |-> [k \in DOMAIN h |-> MemoryOf(h[k])], raised |-> FALSE,
                vec_called |-> TRUE, hits |-> h] :
                  h \in CollectionQuery(colls[m.collection], n_results)}

(* f"[Past conversation from {timestamp}]: {content}" *)
FormatContext(memory) ==
    <<"[Past conversation from ", memory.timestamp, "]: ", memory.content>>

(* Variant: the snippets listed in the opposite order. *)
MMGetRelevantContextReversed(d, colls, m, current_message, max_items, vfail) ==
    {[context |-> Reverse([k \in DOMAIN o.result |-> FormatContext(o.result[k])]),
      memories |-> o.result, raised |-> o.raised] :
        o \in MMSearchSemanticMemory(d, colls, m, current_message, max_items, vfail)}

(* get_relevant_context: search_semantic_memory(current_message, max_items)
   and one formatted string per memory, in the order of the memories.  The
   set of outcomes of the call. *)
MMGetRelevantContext(d, colls, m, current_message, max_items, vfail) ==
    {[context |-> [k \in DOMAIN o.result |-> FormatContext(o.result[k])],
      memories |-> o.result, raised |-> o.raised] :
        o \in MMSearchSemanticMemory(d, colls, m, current_message, max_items, vfail)}

(* History: a completed save on a session whose row exists counts. *)
NsavesAfter(ns, d, session_id, raised) ==
    IF ~raised /\ SessionIndices(d, session_id) # {}
    THEN [ns EXCEPT ![session_id] = @ + 1]
    ELSE ns

----------------------------------------------------------------------------
(* State machine *)

NoLast ==
    [op |-> "init", m |-> 0, role |-> None, raised |-> FALSE, vfail |-> FALSE,
     dbfail |-> FALSE, vec_called |-> FALSE, query |-> <<>>, n |-> 0,
     result |-> <<>>, hits |-> <<>>]

Init ==
    /\ clock = 0
    /\ db = EmptyDb
    /\ collections = [c \in CollectionNames |-> <<>>]
    /\ mm = [i \in Managers |-> NoManager]
    /\ nextUuid = 0
    /\ nsaves = [s \in AllSessionIds |-> 0]
    /\ last = NoLast

Live(i) == mm[i].state = "live"

(* Whether a Vector Index call can be made to fail: only where one is made. *)
FailChoices(enabled) == IF enabled THEN BOOLEAN ELSE {FALSE}

(* The emotion label a caller passes: only with a user-role message. *)
EmotionChoices(role) == IF role = "user" THEN Emotions \cup {None} ELSE {None}

(* Time passes. *)
Tick ==
    /\ clock < MaxClock
    /\ clock' = clock + 1
    /\ last' = [NoLast EXCEPT !.op = "tick"]
    /\ UNCHANGED <<db, collections, mm, nextUuid, nsaves>>

(* MemoryManager(user_name, session_id) *)
NewMemoryManager(i, user_name, session_id, vec_ok) ==
    /\ mm[i].state = "none"
    /\ session_id = None => nextUuid < MaxUuid
    /\ LET r == MMInit(db, clock, nextUuid, user_name, session_id, vec_ok)
       IN  /\ db' = r.db
           /\ nextUuid' = r.nextUuid
           /\ mm' = [mm EXCEPT ![i] = r.m]
    /\ last' = [NoLast EXCEPT !.op = "MemoryManager", !.m = i]
    /\ UNCHANGED <<clock, collections, nsaves>>

(* MemoryManager.start_session(personality) *)
StartSession(i, personality) ==
    /\ Live(i)
    /\ db' = CreateSession(db, clock, mm[i].session_id, mm[i].user_name, personality)
    /\ last' = [NoLast EXCEPT !.op = "start_session", !.m = i]
    /\ UNCHANGED <<clock, collections, mm, nextUuid, nsaves>>

(* Variant: an index write that fails switches the Vector Index off. *)
SaveMessageDisabling(i, role, content, personality, emotion, vfail) ==
    /\ Live(i)
    /\ Len(db.conversations) < MaxRows
    /\ emotion \in EmotionChoices(role)
    /\ vfail \in FailChoices(mm[i].vector_enabled /\ role = "user")
    /\ LET r == MMSaveMessage(db, collections, mm[i], clock, role, content,
                              personality, emotion, vfail)
       IN  /\ db' = r.db
           /\ collections' = r.collections
           /\ nsaves' = NsavesAfter(nsaves, db, mm[i].session_id, r.raised)
           /\ last' = [NoLast EXCEPT !.op = "save_message", !.m = i,
                                     !.role = role, !.raised = r.raised,
                                     !.vfail = vfail]
    /\ mm' = [mm EXCEPT ![i].vector_enabled = @ /\ ~vfail]
    /\ UNCHANGED <<clock, nextUuid>>

(* MemoryManager.save_message(role, content, personality, emotion);
   last.raised: the call raised. *)
SaveMessage(i, role, content, personality, emotion, vfail) ==
    /\ Live(i)
    /\ Len(db.conversations) < MaxRows
    /\ emotion \in EmotionChoices(role)
    /\ vfail \in FailChoices(mm[i].vector_enabled /\ role = "user")
    /\ LET r == MMSaveMessage(db, collections, mm[i], clock, role, content,
                              personality, emotion, vfail)
       IN  /\ db' = r.db
           /\ collections' = r.collections
           /\ nsaves' = NsavesAfter(nsaves, db, mm[i].session_id, r.raised)
           /\ last' = [NoLast EXCEPT !.op = "save_message", !.m = i,
                                     !.role = role, !.raised = r.raised,
                                     !.vfail = vfail]
    /\ UNCHANGED <<clock, mm, nextUuid>>

(* MemoryManager.get_recent_memory(limit) *)
GetRecentMemory(i, limit) ==
    /\ Live(i)
    /\ \E h \in GetSessionHistory(db, mm[i].session_id, limit) :
          last' = [NoLast EXCEPT !.op = "get_recent_memory", !.m = i,
                                !.n = limit, !.result = h]
    /\ UNCHANGED <<clock, db, collections, mm, nextUuid, nsaves>>

(* MemoryManager.search_semantic_memory(query, n_results) *)
SearchSemanticMemory(i, query, n_results, vfail) ==
    /\ Live(i)
    /\ vfail \in FailChoices(mm[i].vector_enabled)
    /\ \E o \in MMSearchSemanticMemory(db, collections, mm[i], query, n_results, vfail) :
          last' = [NoLast EXCEPT !.op = "search_semantic_memory", !.m = i,
                                !.raised = o.raised, !.vfail = vfail,
                                !.vec_called = o.vec_called, !.query = query,
                                !.n = n_results, !.result = o.result,
                                !.hits = o.hits]
    /\ UNCHANGED <<clock, db, collections, mm, nextUuid, nsaves>>

(* MemoryManager.end_session() *)
MMEndSession(i) ==
    /\ Live(i)
    /\ db' = EndSession(db, clock, mm[i].session_id)
    /\ last' = [NoLast EXCEPT !.op = "end_session", !.m = i]
    /\ UNCHANGED <<clock, collections, mm, nextUuid, nsaves>>

(* Variant: clearing also opens the new session, as clear_history does. *)
ClearSessionMemoryAndStart(i) ==
    /\ Live(i)
    /\ nextUuid < MaxUuid
    /\ db' = CreateSession(db, clock, Uuid4(nextUuid), mm[i].user_name, "Yui")
    /\ mm' = [mm EXCEPT ![i].session_id = Uuid4(nextUuid)]
    /\ nextUuid' = nextUuid + 1
    /\ last' = [NoLast EXCEPT !.op = "clear_session_memory", !.m = i]
    /\ UNCHANGED <<clock, collections, nsaves>>

(* MemoryManager.clear_session_memory() *)
ClearSessionMemory(i) ==
    /\ Live(i)
    /\ nextUuid < MaxUuid
    /\ mm' = [mm EXCEPT ![i].session_id = Uuid4(nextUuid)]
    /\ nextUuid' = nextUuid + 1
    /\ last' = [NoLast EXCEPT !.op = "clear_session_memory", !.m = i]
    /\ UNCHANGED <<clock, db, collections, nsaves>>

(* The instance is collected: ConversationManager.__del__ (if it is one)
   and then MemoryManager.__del__, each calling end_session. *)
Del(i) ==
    /\ Live(i)
    /\ db' = EndSession(IF mm[i].cm THEN EndSession(db, clock, mm[i].session_id)
                                   ELSE db,
                        clock, mm[i].session_id)
    /\ mm' = [mm EXCEPT ![i] = [NoManager EXCEPT !.state = "dead"]]
    /\ last' = [NoLast EXCEPT !.op = "del", !.m = i]
    /\ UNCHANGED <<clock, collections, nextUuid, nsaves>>

(* ConversationManager(personality_name, user_name): MemoryManager(user_name)
   and start_session(self.personality.name). *)
NewConversationManager(i, personality_name, user_name, vec_ok) ==
    /\ mm[i].state = "none"
    /\ nextUuid < MaxUuid
    /\ LET r == MMInit(db, clock, nextUuid, user_name, None, vec_ok)
           p == GetPersonality(personality_name)
       IN  /\ db' = CreateSession(r.db, clock, r.m.session_id, user_name, p)
           /\ nextUuid' = r.nextUuid
           /\ mm' = [mm EXCEPT ![i] = [r.m EXCEPT !.cm = TRUE, !.personality = p]]
    /\ last' = [NoLast EXCEPT !.op = "ConversationManager", !.m = i]
    /\ UNCHANGED <<clock, collections, nsaves>>

(* ConversationManager.send_message(user_message): add_message("user", ...)
   with the detected emotion, get_relevant_context(user_message, 2),
   llm.generate (reply, taking dt ticks), add_message("assistant", reply).
   add_message swallows what memory.save_message raises; last.raised:
   the save of the user turn raised. *)
SendMessage(i, user_message, emotion, reply, vfail, qfail, dt) ==
    /\ Live(i) /\ mm[i].cm
    /\ Len(db.conversations) + 2 <= MaxRows
    /\ clock + dt <= MaxClock
    /\ vfail \in FailChoices(mm[i].vector_enabled)
    /\ qfail \in FailChoices(mm[i].vector_enabled)
    /\ LET m == mm[i]
           a == MMSaveMessage(db, collections, m, clock, "user", user_message,
                              m.personality, emotion, vfail)
           b == MMSaveMessage(a.db, a.collections, m, clock + dt, "assistant",
                              reply, m.personality, None, FALSE)
       IN  /\ db' = b.db
           /\ collections' = b.collections
           /\ nsaves' = NsavesAfter(NsavesAfter(nsaves, db, m.session_id, a.raised),
                                    a.db, m.session_id, b.raised)
           /\ \E o \in MMSearchSemanticMemory(a.db, a.collections, m,
                                               user_message, 2, qfail) :
                 last' = [NoLast EXCEPT !.op = "send_message", !.m = i,
                                       !.role = "user", !.raised = a.raised,
                                       !.vfail = vfail,
                                       !.vec_called = o.vec_called,
                                       !.query = user_message, !.n = 2,
                                       !.result = o.result, !.hits = o.hits]
    /\ clock' = clock + dt
    /\ UNCHANGED <<mm, nextUuid>>

(* ConversationManager.switch_personality(personality_name): end_session,
   memory.session_id = None, start_session(self.personality.name). *)
SwitchPersonality(i, personality_name) ==
    /\ Live(i) /\ mm[i].cm
    /\ LET p == GetPersonality(personality_name)
       IN  /\ db' = CreateSession(EndSession(db, clock, mm[i].session_id), clock,
                                  None, mm[i].user_name, p)
           /\ mm' = [mm EXCEPT ![i].personality = p, ![i].session_id = None]
    /\ last' = [NoLast EXCEPT !.op = "switch_personality", !.m = i]
    /\ UNCHANGED <<clock, collections, nextUuid, nsaves>>

(* Variant: clear_history without the start_session that follows
   clear_session_memory. *)
ClearHistoryNoStart(i) ==
    /\ Live(i) /\ mm[i].cm
    /\ nextUuid < MaxUuid
    /\ db' = db
    /\ mm' = [mm EXCEPT ![i].session_id = Uuid4(nextUuid),
                         ![i].conversation_history = <<>>, ![i].added = <<>>]
    /\ nextUuid' = nextUuid + 1
    /\ last' = [NoLast EXCEPT !.op = "clear_history", !.m = i]
    /\ UNCHANGED <<clock, collections, nsaves>>

(* ConversationManager.clear_history(): conversation_history = [],
   clear_session_memory, then start_session(self.personality.name). *)
ClearHistory(i) ==
    /\ Live(i) /\ mm[i].cm
    /\ nextUuid < MaxUuid
    /\ db' = CreateSession(db, clock, Uuid4(nextUuid), mm[i].user_name,
                           mm[i].personality)
    /\ mm' = [mm EXCEPT ![i].session_id = Uuid4(nextUuid),
                         ![i].conversation_history = <<>>, ![i].added = <<>>]
    /\ nextUuid' = nextUuid + 1
    /\ last' = [NoLast EXCEPT !.op = "clear_history", !.m = i]
    /\ UNCHANGED <<clock, collections, nsaves>>

(* The users a manager slot is constructed for: the slots are
   interchangeable, so the first is fixed. *)
UsersOf(i) == IF i = 1 THEN {UserAl} ELSE Users

(* The same where the Vector Index plays no part: the two users whose
   collection names collide are one case too many. *)
StoreUsersOf(i) == IF i = 1 THEN {UserAl} ELSE {UserAl, UserBo}

(* The session id and the personality a slot passes: the first slot's are
   fixed likewise. *)
SessionIdArgsOf(i) == IF i = 1 THEN GivenIds ELSE SessionIdArgs
PersonalitiesOf(i) == IF i = 1 THEN {"Yui"} ELSE Personalities

(* What the callers say: a user turn or the assistant's reply. *)
ContentsOf(role) == IF role = "user" THEN Contents ELSE {Reply}

(* The MemoryManager used on its own, its Vector Index failing to
   initialise: the messages of the Relational Store. *)
Next ==
    \/ Tick
    \/ \E i \in Managers : \E u \in StoreUsersOf(i), s \in SessionIdArgs :
          NewMemoryManager(i, u, s, FALSE)
    \/ \E i \in Managers : StartSession(i, "Yui")
    \/ \E i \in Managers, r \in Roles : \E c \in ContentsOf(r), e \in EmotionChoices(r) :
          SaveMessage(i, r, c, "Yui", e, FALSE)
    \/ \E i \in Managers, n \in Limits : GetRecentMemory(i, n)

Spec == Init /\ [][Next]_vars

(* The MemoryManager used on its own, its Vector Index failing to
   initialise: the sessions of the Relational Store. *)
NextSess ==
    \/ Tick
    \/ \E i \in Managers : \E u \in StoreUsersOf(i), s \in SessionIdArgsOf(i) :
          NewMemoryManager(i, u, s, FALSE)
    \/ \E i \in Managers : \E p \in PersonalitiesOf(i) : StartSession(i, p)
    \/ \E i \in Managers : SaveMessage(i, "user", Hello, "Yui", None, FALSE)
    \/ \E i \in Managers : MMEndSession(i)
    \/ \E i \in Managers : Del(i)

SpecSess == Init /\ [][NextSess]_vars

(* The MemoryManager used on its own, one session per manager: the Vector
   Index and the searches. *)
NextVec ==
    \/ Tick
    \/ \E i \in Managers : \E u \in UsersOf(i), v \in BOOLEAN :
          NewMemoryManager(i, u, None, v)
    \/ \E i \in Managers, r \in Roles : \E c \in ContentsOf(r), f \in BOOLEAN :
          SaveMessage(i, r, c, "Yui", None, f)
    \/ \E i \in Managers, q \in Keywords, n \in Limits, f \in BOOLEAN :
          SearchSemanticMemory(i, q, n, f)

SpecVec == Init /\ [][NextVec]_vars

(* The ConversationManager and what it does to its MemoryManager. *)
NextCM ==
    \/ Tick
    \/ \E i \in Managers : \E p \in PersonalityArgs, u \in UsersOf(i), v \in BOOLEAN :
          NewConversationManager(i, p, u, v)
    \/ \E i \in Managers, c \in Contents, e \in Emotions \cup {None},
          f \in BOOLEAN, g \in BOOLEAN, dt \in {0, 1} :
          SendMessage(i, c, e, Reply, f, g, dt)
    \/ \E i \in Managers, p \in PersonalityArgs : SwitchPersonality(i, p)
    \/ \E i \in Managers : ClearHistory(i)
    \/ \E i \in Managers : Del(i)

SpecCM == Init /\ [][NextCM]_vars

----------------------------------------------------------------------------
(* DatabaseManager.save_message statement by statement, on the manager's own
   sqlite3 connection.  The INSERT opens an implicit transaction; nothing
   is durable before conn.commit(). *)

(* The store as manager i's connection reads it. *)
View(i) == IF mm[i].txn = <<>> THEN db ELSE mm[i].txn[1]

(* Another connection holds uncommitted writes, and with them the write
   lock of the database file. *)
Locked(i) == \E j \in Managers \ {i} : mm[j].txn # <<>>

(* cursor.execute(INSERT INTO conversations ...) on a session that has its
   row; raises when the file is locked by another connection. *)
TxnInsert(i, role, content) ==
    /\ Live(i) /\ mm[i].pc = "idle"
    /\ SessionIndices(View(i), mm[i].session_id) # {}
    /\ Len(View(i).conversations) < MaxRows
    /\ IF Locked(i)
       THEN /\ mm' = mm
            /\ last' = [NoLast EXCEPT !.op = "insert", !.m = i, !.raised = TRUE]
       ELSE /\ mm' = [mm EXCEPT ![i].pc = "inserted",
                                ![i].txn = <<[View(i) EXCEPT
                                    !.conversations = Append(@,
                                       [session_id |-> mm[i].session_id,
                                        user_name |-> mm[i].user_name,
                                        personality |-> "Yui", role |-> role,
                                        content |-> content, timestamp |-> clock,
                                        emotion |-> None])]>>]
            /\ last' = [NoLast EXCEPT !.op = "insert", !.m = i]
    /\ UNCHANGED <<clock, db, collections, nextUuid, nsaves>>

(* cursor.execute(UPDATE sessions SET message_count = message_count + 1 ...) *)
TxnUpdate(i) ==
    /\ Live(i) /\ mm[i].pc = "inserted"
    /\ mm' = [mm EXCEPT ![i].pc = "updated",
                        ![i].txn = <<[View(i) EXCEPT
                            !.sessions = [k \in DOMAIN @ |->
                               IF @[k].session_id = mm[i].session_id
                               THEN [@[k] EXCEPT !.message_count = @ + 1]
                               ELSE @[k]]]>>]
    /\ last' = [NoLast EXCEPT !.op = "update", !.m = i]
    /\ UNCHANGED <<clock, db, collections, nextUuid, nsaves>>

(* conn.commit(): the connection's writes become the durable store. *)
TxnCommit(i) ==
    /\ Live(i) /\ mm[i].pc = "updated"
    /\ db' = View(i)
    /\ mm' = [mm EXCEPT ![i].pc = "idle", ![i].txn = <<>>]
    /\ nsaves' = NsavesAfter(nsaves, db, mm[i].session_id, FALSE)
    /\ last' = [NoLast EXCEPT !.op = "commit", !.m = i]
    /\ UNCHANGED <<clock, collections, nextUuid>>

(* An exception leaves save_message after the INSERT or after the UPDATE
   (an interrupt, an sqlite3 error of the next statement or of the commit):
   the method has no handler and no rollback, the connection keeps its
   open transaction. *)
TxnFail(i) ==
    /\ Live(i) /\ mm[i].pc \in {"inserted", "updated"}
    /\ mm' = [mm EXCEPT ![i].pc = "idle"]
    /\ last' = [NoLast EXCEPT !.op = "fail", !.m = i, !.raised = TRUE]
    /\ UNCHANGED <<clock, db, collections, nextUuid, nsaves>>

(* The process dies: SQLite discards the uncommitted writes. *)
TxnCrash(i) ==
    /\ Live(i)
    /\ mm' = [mm EXCEPT ![i] = [NoManager EXCEPT !.state = "dead"]]
    /\ last' = [NoLast EXCEPT !.op = "crash", !.m = i]
    /\ UNCHANGED <<clock, db, collections, nextUuid, nsaves>>

(* MemoryManager.end_session() on that connection: the UPDATE joins the
   open transaction, if any, and conn.commit() commits all of it. *)
TxnEndSession(i) ==
    /\ Live(i) /\ mm[i].pc = "idle"
    /\ IF Locked(i)
       THEN /\ UNCHANGED <<db, mm>>
            /\ last' = [NoLast EXCEPT !.op = "end_session", !.m = i,
                                      !.raised = TRUE]
       ELSE /\ db' = EndSession(View(i), clock, mm[i].session_id)
            /\ mm' = [mm EXCEPT ![i].txn = <<>>]
            /\ last' = [NoLast EXCEPT !.op = "end_session", !.m = i]
    /\ UNCHANGED <<clock, collections, nextUuid, nsaves>>

(* MemoryManager.start_session() on that connection: create_session
   commits when its INSERT succeeds and swallows the IntegrityError of a
   duplicate without committing. *)
TxnStartSession(i) ==
    /\ Live(i) /\ mm[i].pc = "idle"
    /\ LET v == CreateSession(View(i), clock, mm[i].session_id, mm[i].user_name,
                              "Yui")
       IN  IF Locked(i)
           THEN /\ UNCHANGED <<db, mm>>
                /\ last' = [NoLast EXCEPT !.op = "start_session", !.m = i,
                                          !.raised = TRUE]
           ELSE /\ db' = IF v = View(i) THEN db ELSE v
                /\ mm' = IF v = View(i) THEN mm ELSE [mm EXCEPT ![i].txn = <<>>]
                /\ last' = [NoLast EXCEPT !.op = "start_session", !.m = i]
    /\ UNCHANGED <<clock, collections, nextUuid, nsaves>>

NextTxn ==
    \/ Tick
    \/ \E i \in Managers : \E s \in SessionIdArgsOf(i) :
          NewMemoryManager(i, UserAl, s, FALSE)
    \/ \E i \in Managers : TxnStartSession(i)
    \/ \E i \in Managers, r \in Roles : TxnInsert(i, r, Hello)
    \/ \E i \in Managers : TxnUpdate(i)
    \/ \E i \in Managers : TxnCommit(i)
    \/ \E i \in Managers : TxnFail(i)
    \/ \E i \in Managers : TxnCrash(i)
    \/ \E i \in Managers : TxnEndSession(i)

SpecTxn == Init /\ [][NextTxn]_vars

----------------------------------------------------------------------------
(* Clearing the session memory *)

(* MemoryManager.get_full_history(limit) *)
GetFullHistory(i, limit) ==
    /\ Live(i)
    /\ \E h \in GetUserHistory(db, mm[i].user_name, limit) :
          last' = [NoLast EXCEPT !.op = "get_full_history", !.m = i,
                                !.n = limit, !.result = h]
    /\ UNCHANGED <<clock, db, collections, mm, nextUuid, nsaves>>

NextClear ==
    \/ Tick
    \/ \E i \in Managers : \E u \in StoreUsersOf(i), s \in SessionIdArgsOf(i) :
          NewMemoryManager(i, u, s, i = 1)
    \/ \E i \in Managers : StartSession(i, "Yui")
    \/ \E i \in Managers : SaveMessage(i, "user", Hello, "Yui", None, FALSE)
    \/ \E i \in Managers : ClearSessionMemory(i)
    \/ \E i \in Managers : GetFullHistory(i, MaxRows)

SpecClear == Init /\ [][NextClear]_vars

----------------------------------------------------------------------------
(* The three layers side by side: slot 1 a ConversationManager, slot 2 a
   MemoryManager used directly. *)

NextLayers ==
    \/ Tick
    \/ NewConversationManager(1, "yui", UserAl, FALSE)
    \/ \E dt \in {0, 1} : SendMessage(1, Hello, None, Reply, FALSE, FALSE, dt)
    \/ SwitchPersonality(1, "Friday")
    \/ ClearHistory(1)
    \/ \E u \in StoreUsersOf(2) : NewMemoryManager(2, u, "g1", FALSE)
    \/ StartSession(2, "Yui")
    \/ \E r \in Roles : SaveMessage(2, r, Hello, "Yui", None, FALSE)
    \/ MMEndSession(2)
    \/ ClearSessionMemory(2)
    \/ \E i \in Managers : Del(i)

SpecLayers == Init /\ [][NextLayers]_vars

----------------------------------------------------------------------------
(* Construction and user profiles *)

(* MemoryManager(user_name, session_id) where the store or the vector setup
   may fail; last.dbfail, last.vfail: which did. *)
Construct(i, user_name, session_id, db_ok, vec_ok) ==
    /\ mm[i].state = "none"
    /\ session_id = None => nextUuid < MaxUuid
    /\ LET r == MMConstruct(db, clock, nextUuid, user_name, session_id, db_ok, vec_ok)
       IN  /\ db' = r.db
           /\ nextUuid' = r.nextUuid
           /\ mm' = [mm EXCEPT ![i] = r.m]
           /\ last' = [NoLast EXCEPT !.op = "__init__", !.m = i,
                                     !.raised = r.raised, !.dbfail = ~db_ok,
                                     !.vfail = ~vec_ok, !.query = user_name]
    /\ UNCHANGED <<clock, collections, nsaves>>

(* db.get_or_create_user_profile(user_name); last.result: the dict it
   returns. *)
GetOrCreateUserProfileCall(user_name) ==
    /\ \E i \in Managers : Live(i)
    /\ db' = GetOrCreateUserProfile(db, clock, user_name)
    /\ last' = [NoLast EXCEPT !.op = "get_or_create_user_profile",
                              !.query = user_name,
                              !.result = <<GetOrCreateUserProfileReturn(db, clock,
                                                                        user_name)>>]
    /\ UNCHANGED <<clock, collections, mm, nextUuid, nsaves>>

(* MemoryManager.update_preferences(preferences) *)
UpdatePreferences(i, preferences) ==
    /\ Live(i)
    /\ db' = UpdateUserPreferences(db, mm[i].user_name, preferences)
    /\ last' = [NoLast EXCEPT !.op = "update_preferences", !.m = i]
    /\ UNCHANGED <<clock, collections, mm, nextUuid, nsaves>>

NextProf ==
    \/ Tick
    \/ \E i \in Managers : \E u \in StoreUsersOf(i), s \in SessionIdArgs,
                              d \in BOOLEAN, v \in BOOLEAN :
          Construct(i, u, s, d, v)
    \/ \E u \in {UserAl, UserBo} : GetOrCreateUserProfileCall(u)
    \/ \E i \in Managers, p \in PreferenceArgs : UpdatePreferences(i, p)
    \/ \E i \in Managers : Del(i)

SpecProf == Init /\ [][NextProf]_vars

----------------------------------------------------------------------------
(* Saving while the Relational Store may fail *)

(* MemoryManager.save_message(role, content, personality); last.dbfail: the
   store's write failed; last.raised: the call raised. *)
SaveMessageStore(i, role, content, dbfail, vfail) ==
    /\ Live(i)
    /\ Len(db.conversations) < MaxRows
    /\ vfail \in FailChoices(mm[i].vector_enabled /\ role = "user" /\ ~dbfail)
    /\ LET r == MMSaveMessageStore(db, collections, mm[i], clock, role, content,
                                   "Yui", None, dbfail, vfail)
       IN  /\ db' = r.db
           /\ collections' = r.collections
           /\ nsaves' = NsavesAfter(nsaves, db, mm[i].session_id, r.raised)
           /\ last' = [NoLast EXCEPT !.op = "save_message", !.m = i,
                                     !.role = role, !.raised = r.raised,
                                     !.dbfail = dbfail, !.vfail = vfail]
    /\ UNCHANGED <<clock, mm, nextUuid>>

NextFail ==
    \/ Tick
    \/ \E i \in Managers : \E u \in StoreUsersOf(i), v \in BOOLEAN :
          NewMemoryManager(i, u, None, v)
    \/ \E i \in Managers, r \in Roles, d \in BOOLEAN, f \in BOOLEAN :
          \E c \in ContentsOf(r) : SaveMessageStore(i, r, c, d, f)

SpecFail == Init /\ [][NextFail]_vars

----------------------------------------------------------------------------
(* Statistics over the DatabaseManager's own operations *)

MaxSessions == 3
StatsSessionIds == {"g1", "u1", "u2"}

(* db.create_session(session_id, user_name, personality) *)
CreateSessionCall(session_id, user_name, personality) ==
    /\ Len(db.sessions) < MaxSessions
    /\ db' = CreateSession(db, clock, session_id, user_name, personality)
    /\ last' = [NoLast EXCEPT !.op = "create_session"]
    /\ UNCHANGED <<clock, collections, mm, nextUuid, nsaves>>

(* db.save_message(session_id, user_name, personality, role, content) *)
SaveMessageCall(session_id, user_name, personality, role, content) ==
    /\ Len(db.conversations) < MaxRows
    /\ LET r == DbSaveMessage(db, clock, session_id, user_name, personality,
                              role, content, None)
       IN  /\ db' = r.db
           /\ nsaves' = NsavesAfter(nsaves, db, session_id, r.raised)
    /\ last' = [NoLast EXCEPT !.op = "db_save_message"]
    /\ UNCHANGED <<clock, collections, mm, nextUuid>>

(* db.get_stats(user_name); last.result: the dict it returns. *)
GetStatsCall(user_name) ==
    /\ \E r \in GetStats(db, user_name) :
          last' = [NoLast EXCEPT !.op = "get_stats", !.query = user_name,
                                !.result = <<r>>]
    /\ UNCHANGED <<clock, db, collections, mm, nextUuid, nsaves>>

NextStats ==
    \/ \E s \in StatsSessionIds, u \in {UserAl, UserBo}, p \in Personalities :
          CreateSessionCall(s, u, p)
    \/ \E s \in StatsSessionIds, u \in {UserAl, UserBo} :
          SaveMessageCall(s, u, "Yui", "user", Hello)
    \/ \E u \in {UserAl, UserBo} : GetStatsCall(u)

SpecStats == Init /\ [][NextStats]_vars

----------------------------------------------------------------------------
(* The context of a message *)

(* MemoryManager.get_relevant_context(current_message, max_items);
   last.result: the strings returned; last.hits: the memories the search
   inside it returned. *)
GetRelevantContext(i, current_message, max_items, vfail) ==
    /\ Live(i)
    /\ vfail \in FailChoices(mm[i].vector_enabled)
    /\ \E o \in MMGetRelevantContext(db, collections, mm[i], current_message,
                                      max_items, vfail) :
          last' = [NoLast EXCEPT !.op = "get_relevant_context", !.m = i,
                                !.raised = o.raised, !.vfail = vfail,
                                !.query = current_message, !.n = max_items,
                                !.result = o.context, !.hits = o.memories]
    /\ UNCHANGED <<clock, db, collections, mm, nextUuid, nsaves>>

NextCtx ==
    \/ Tick
    \/ \E i \in Managers : \E u \in StoreUsersOf(i), v \in BOOLEAN :
          NewMemoryManager(i, u, None, v)
    \/ \E i \in Managers, c \in Contents, f \in BOOLEAN :
          SaveMessage(i, "user", c, "Yui", None, f)
    \/ \E i \in Managers, q \in Keywords, n \in Limits, f \in BOOLEAN :
          GetRelevantContext(i, q, n, f)

SpecCtx == Init /\ [][NextCtx]_vars

----------------------------------------------------------------------------------------------------------------------------------------------------
(* The MemoryManager's whole interface, its Vector Index failing at will *)

NextFlag ==
    \/ \E i \in Managers : \E u \in StoreUsersOf(i), v \in BOOLEAN :
          NewMemoryManager(i, u, None, v)
    \/ \E i \in Managers : StartSession(i, "Yui")
    \/ \E i \in Managers, f \in BOOLEAN : SaveMessage(i, "user", Hello, "Yui", None, f)
    \/ \E i \in Managers, f \in BOOLEAN : SearchSemanticMemory(i, <<"p">>, 1, f)
    \/ \E i \in Managers : MMEndSession(i)
    \/ \E i \in Managers : ClearSessionMemory(i)

SpecFlag == Init /\ [][NextFlag]_vars

----------------------------------------------------------------------------
(* ToolExecutor and APIManager *)

(* What a tool call returns: a dict with its success flag, or None. *)
NoneResult == [kind |-> "None", success |-> FALSE]
Failure == [kind |-> "dict", success |-> FALSE]
Success == [kind |-> "dict", success |-> TRUE]

(* The user messages tried, and detect_intent on each of them: the first
   pattern that matches, with the value it extracts; <<>> when none does. *)
ToolMessages ==
    {"hello", "pi", "weather in paris", "forecast for rome", "tell me a joke",
     "say a funny", "a quote", "some wisdom", "fun fact", "trivia",
     "any advice", "a tip", "i am bored", "an activity", "bitcoin price",
     "eth price", "define cat", "what is love", "search cats", "look up dogs"}

DetectIntent(message) ==
    CASE message = "weather in paris" -> <<"weather", "paris">>
      [] message = "forecast for rome" -> <<"weather", "rome">>
      [] message \in {"tell me a joke", "say a funny"} -> <<"joke", None>>
      [] message \in {"a quote", "some wisdom"} -> <<"quote", None>>
      [] message \in {"fun fact", "trivia"} -> <<"fact", None>>
      [] message \in {"any advice", "a tip"} -> <<"advice", None>>
      [] message \in {"i am bored", "an activity"} -> <<"activity", None>>
      [] message = "bitcoin price" -> <<"crypto", "bitcoin">>
      [] message = "eth price" -> <<"crypto", "ethereum">>
      [] message = "define cat" -> <<"definition", "cat">>
      [] message = "what is love" -> <<"definition", "love">>
      [] message = "search cats" -> <<"search", "cats">>
      [] message = "look up dogs" -> <<"search", "dogs">>
      [] OTHER -> <<>>

(* What the service behind a tool does with a request: it answers 200 with
   the expected payload ("ok"), 200 with a payload lacking what is looked
   up ("missing": an unknown coin), another status ("status": an unknown
   word or place, a rate limit, a server error), or the request or the
   decoding of its answer raises ("exception"). For the web search: results
   ("ok"), none ("missing"), the library absent ("unavailable") or raising
   ("exception"). *)
Responses == {"ok", "missing", "status", "exception", "unavailable"}

ResponsesOf(intent) ==
    CASE intent = "crypto" -> {"ok", "missing", "status", "exception"}
      [] intent = "search" -> {"ok", "missing", "unavailable", "exception"}
      [] OTHER -> {"ok", "status", "exception"}

(* An APIManager method (get_weather, get_joke, get_quote, get_fun_fact,
   get_advice, get_activity, get_definition): the dict inside the
   `if response.status_code == 200`, the failure dict in the except, and
   nothing returned on any other status. *)
ApiGet(response) ==
    CASE response = "ok" -> Success
      [] response = "exception" -> Failure
      [] OTHER -> NoneResult

(* get_crypto_price: the same, and nothing returned either when the coin is
   not in the answer. *)
GetCryptoPrice(coin_id, response) ==
    CASE response = "ok" -> Success
      [] response = "exception" -> Failure
      [] OTHER -> NoneResult

(* web_search: every path returns a dict. *)
WebSearch(query, response) ==
    IF response = "ok" THEN Success ELSE Failure

ExecuteTool(intent, value, response) ==
    CASE intent = "crypto" -> GetCryptoPrice(value, response)
      [] intent = "search" -> WebSearch(value, response)
      [] intent \in {"weather", "joke", "quote", "fact", "advice", "activity",
                     "definition"} -> ApiGet(response)
      [] OTHER -> Failure

(* format_result: the text shown for a successful result. *)
FormatResult(intent, value) == <<"formatted", intent, value>>

(* process_message(message): what it returns (<<>> for None) and whether it
   raised; result.get on a None result raises AttributeError. *)
ProcessMessage(message, response) ==
    LET detection == DetectIntent(message)
    IN  IF detection = <<>>
        THEN [returned |-> <<>>, raised |-> FALSE]
        ELSE LET result == ExecuteTool(detection[1], detection[2], response)
             IN  IF result.kind = "None"
                 THEN [returned |-> <<>>, raised |-> TRUE]
                 ELSE IF ~result.success
                 THEN [returned |-> <<>>, raised |-> FALSE]
                 ELSE [returned |-> FormatResult(detection[1], detection[2]),
                       raised |-> FALSE]

(* The responses that matter to a message: those of the tool it selects. *)
ResponsesFor(message) ==
    IF DetectIntent(message) = <<>> THEN {"ok"}
    ELSE ResponsesOf(DetectIntent(message)[1])

(* A message arrives while the service is in some condition; last.query:
   the message, last.hits: the service's response. *)
InitTool ==
    /\ clock = 0
    /\ db = EmptyDb
    /\ collections = [c \in CollectionNames |-> <<>>]
    /\ mm = [i \in Managers |-> NoManager]
    /\ nextUuid = 0
    /\ nsaves = [s \in AllSessionIds |-> 0]
    /\ \E message \in ToolMessages : \E response \in ResponsesFor(message) :
          last = [NoLast EXCEPT !.op = "message", !.query = message,
                                !.hits = <<response>>]

(* tool_executor.process_message(user_message); last.result: what it
   returned; last.raised: it raised. *)
ProcessMessageCall ==
    /\ last.op = "message"
    /\ LET o == ProcessMessage(last.query, last.hits[1])
       IN  last' = [last EXCEPT !.op = "process_message",
                                !.result = o.returned, !.raised = o.raised]
    /\ UNCHANGED <<clock, db, collections, mm, nextUuid, nsaves>>

NextTool == ProcessMessageCall

SpecTool == InitTool /\ [][NextTool]_vars

----------------------------------------------------------------------------
(* The web application: websocket_endpoint and its `conversations` dict *)

(* The conversations the dict holds. The key of a connection is the user
   name and a uuid drawn for that connection alone, so each connection has
   an entry of its own: the slot stands for the key. *)
Registry == {i \in Managers : mm[i].registered}

Running(i) == Live(i) /\ mm[i].handler = "running"

(* A client connects: accept, ConversationManager("yui", user_name), and
   the entry is added. *)
WsConnect(i, user_name, vec_ok) ==
    /\ mm[i].state = "none"
    /\ nextUuid < MaxUuid
    /\ LET r == MMInit(db, clock, nextUuid, user_name, None, vec_ok)
           p == GetPersonality("yui")
       IN  /\ db' = CreateSession(r.db, clock, r.m.session_id, user_name, p)
           /\ nextUuid' = r.nextUuid
           /\ mm' = [mm EXCEPT ![i] = [r.m EXCEPT !.cm = TRUE, !.personality = p,
                                                   !.handler = "running",
                                                   !.registered = TRUE]]
    /\ last' = [NoLast EXCEPT !.op = "connect", !.m = i]
    /\ UNCHANGED <<clock, collections, nsaves>>

(* A chat message: no tool applies or the tool call returns, then
   conversation.send_message, and the loop goes on. *)
WsTurn(i, user_message, reply, dt) ==
    /\ Running(i)
    /\ SendMessage(i, user_message, None, reply, FALSE, FALSE, dt)

(* A chat message whose tool call raises: the handler's `except Exception`
   reports the error and the handler returns. *)
WsToolRaises(i, message, response) ==
    /\ Running(i)
    /\ ProcessMessage(message, response).raised
    /\ mm' = [mm EXCEPT ![i].handler = "terminated"]
    /\ last' = [NoLast EXCEPT !.op = "tool_error", !.m = i, !.raised = TRUE]
    /\ UNCHANGED <<clock, db, collections, nextUuid, nsaves>>

(* A frame that is not JSON, or not a JSON object: json.loads or data.get
   raises, with the same end. *)
WsMalformed(i) ==
    /\ Running(i)
    /\ mm' = [mm EXCEPT ![i].handler = "terminated"]
    /\ last' = [NoLast EXCEPT !.op = "malformed", !.m = i, !.raised = TRUE]
    /\ UNCHANGED <<clock, db, collections, nextUuid, nsaves>>

(* /clear and /switch <personality> *)
WsClear(i) == Running(i) /\ ClearHistory(i)

WsSwitch(i, personality_name) ==
    Running(i) /\ SwitchPersonality(i, personality_name)

(* The handler leaves through `except WebSocketDisconnect`: the entry is
   deleted, and with the handler's local gone the conversation is
   collected (ConversationManager.__del__, MemoryManager.__del__). *)
Cleanup(i) ==
    /\ db' = EndSession(EndSession(db, clock, mm[i].session_id), clock,
                        mm[i].session_id)
    /\ mm' = [mm EXCEPT ![i] = [NoManager EXCEPT !.state = "dead",
                                                 !.handler = "terminated"]]

(* The client goes away: receive_text raises WebSocketDisconnect. *)
WsDisconnect(i) ==
    /\ Running(i)
    /\ Cleanup(i)
    /\ last' = [NoLast EXCEPT !.op = "disconnect", !.m = i]
    /\ UNCHANGED <<clock, collections, nextUuid, nsaves>>

(* /quit or /exit: handle_command closes the socket and returns True, the
   loop continues and receive_text is called on the closed socket. What
   that raises is the framework's business: WebSocketDisconnect
   (as_disconnect) or another exception, which `except Exception` catches. *)
WsQuit(i, as_disconnect) ==
    /\ Running(i)
    /\ IF as_disconnect
       THEN Cleanup(i)
       ELSE /\ mm' = [mm EXCEPT ![i].handler = "terminated"]
            /\ db' = db
    /\ last' = [NoLast EXCEPT !.op = "quit", !.m = i, !.raised = ~as_disconnect]
    /\ UNCHANGED <<clock, collections, nextUuid, nsaves>>

NextWeb ==
    \/ Tick
    \/ \E i \in Managers : \E u \in UsersOf(i), v \in BOOLEAN : WsConnect(i, u, v)
    \/ \E i \in Managers, dt \in {0, 1} : WsTurn(i, Hello, Reply, dt)
    \/ \E i \in Managers, m \in {"define cat", "bitcoin price"} :
          \E r \in ResponsesFor(m) : WsToolRaises(i, m, r)
    \/ \E i \in Managers : WsMalformed(i)
    \/ \E i \in Managers : WsClear(i)
    \/ \E i \in Managers, p \in PersonalityArgs : WsSwitch(i, p)
    \/ \E i \in Managers : WsDisconnect(i)
    \/ \E i \in Managers, d \in BOOLEAN : WsQuit(i, d)

SpecWeb == Init /\ [][NextWeb]_vars

----------------------------------------------------------------------------
(* The ConversationManager's in-memory history *)

MaxHistory == 20
MaxAdds == 22

(* The n-th message of a conversation, as send_message produces them: the
   user's, then the assistant's, each with a text of its own. *)
Digits == <<"0", "1", "2", "3", "4", "5", "6", "7", "8", "9">>
Numbered(n) == <<Digits[(n \div 10) + 1], Digits[(n % 10) + 1]>>
TurnRole(n) == IF n % 2 = 0 THEN "user" ELSE "assistant"

(* The entry add_message appends. *)
HistoryEntry(role, content, now, emotion) ==
    [role |-> role, content |-> content, timestamp |-> CurrentTimestamp(now),
     emotion |-> emotion]

(* conversation_history after the append and the trim of add_message. *)
Trimmed(h) ==
    IF Len(h) > MaxHistory THEN SubSeq(h, Len(h) - MaxHistory + 1, Len(h)) ELSE h

(* Variant: the trim keeps the oldest max_history entries. *)
AddMessageKeepOldest(i, role, content, emotion, dbfail) ==
    /\ Live(i) /\ mm[i].cm
    /\ Len(mm[i].added) < MaxAdds
    /\ dbfail \/ Len(db.conversations) < MaxRows
    /\ LET entry == HistoryEntry(role, content, clock, emotion)
           h == Append(mm[i].conversation_history, entry)
           r == MMSaveMessageStore(db, collections, mm[i], clock, role, content,
                                   mm[i].personality, emotion, dbfail, FALSE)
       IN  /\ db' = r.db
           /\ collections' = r.collections
           /\ nsaves' = NsavesAfter(nsaves, db, mm[i].session_id, r.raised)
           /\ mm' = [mm EXCEPT ![i].conversation_history =
                                   IF Len(h) > MaxHistory
                                   THEN SubSeq(h, 1, MaxHistory) ELSE h,
                               ![i].added = Append(@, entry)]
           /\ last' = [NoLast EXCEPT !.op = "add_message", !.m = i,
                                     !.role = role, !.dbfail = r.raised]
    /\ UNCHANGED <<clock, nextUuid>>

(* ConversationManager.add_message(role, content, emotion): the append, the
   save to the memory, whose exception (dbfail: the store is unreachable) is
   caught, and the trim. The store is taken to be unreachable once it
   holds MaxRows messages. last.dbfail: the save raised. *)
AddMessage(i, role, content, emotion, dbfail) ==
    /\ Live(i) /\ mm[i].cm
    /\ Len(mm[i].added) < MaxAdds
    /\ dbfail \/ Len(db.conversations) < MaxRows
    /\ LET entry == HistoryEntry(role, content, clock, emotion)
           h == Append(mm[i].conversation_history, entry)
           r == MMSaveMessageStore(db, collections, mm[i], clock, role, content,
                                   mm[i].personality, emotion, dbfail, FALSE)
       IN  /\ db' = r.db
           /\ collections' = r.collections
           /\ nsaves' = NsavesAfter(nsaves, db, mm[i].session_id, r.raised)
           /\ mm' = [mm EXCEPT ![i].conversation_history = Trimmed(h),
                               ![i].added = Append(@, entry)]
           /\ last' = [NoLast EXCEPT !.op = "add_message", !.m = i,
                                     !.role = role, !.dbfail = r.raised]
    /\ UNCHANGED <<clock, nextUuid>>

NextHist ==
    \/ Tick
    \/ NewConversationManager(1, "yui", UserAl, FALSE)
    \/ \E d \in BOOLEAN :
          AddMessage(1, TurnRole(Len(mm[1].added)), Numbered(Len(mm[1].added)),
                     None, d)
    \/ ClearHistory(1)

SpecHist == Init /\ [][NextHist]_vars

----------------------------------------------------------------------------
(* send_message statement by statement *)

MaxTurnRows == 3

InTurn(i, at) == mm[i].turn # <<>> /\ mm[i].turn[1].at = at

(* send_message starts: add_message("user", user_message), whose save
   may raise and is then caught. *)
TurnAddUser(i, user_message) ==
    /\ Live(i) /\ mm[i].cm /\ mm[i].turn = <<>>
    /\ Len(db.conversations) + 2 <= MaxTurnRows
    /\ LET r == MMSaveMessage(db, collections, mm[i], clock, "user", user_message,
                              mm[i].personality, None, FALSE)
       IN  /\ db' = r.db
           /\ collections' = r.collections
           /\ nsaves' = NsavesAfter(nsaves, db, mm[i].session_id, r.raised)
           /\ last' = [NoLast EXCEPT !.op = "turn_user", !.m = i, !.role = "user",
                                     !.raised = r.raised, !.query = user_message]
    /\ mm' = [mm EXCEPT ![i].turn = <<[at |-> "user_added",
                                       user_message |-> user_message,
                                       saved_at |-> clock,
                                       memories |-> <<>>]>>]
    /\ UNCHANGED <<clock, nextUuid>>

(* memory.get_relevant_context(user_message, max_items=2); last.hits: the
   memories behind the strings it returns. *)
TurnGetContext(i) ==
    /\ Live(i) /\ InTurn(i, "user_added")
    /\ \E o \in MMGetRelevantContext(db, collections, mm[i],
                                      mm[i].turn[1].user_message, 2, FALSE) :
          /\ mm' = [mm EXCEPT ![i].turn[1].at = "context_read",
                              ![i].turn[1].memories = o.memories]
          /\ last' = [NoLast EXCEPT !.op = "turn_context", !.m = i,
                                    !.raised = o.raised,
                                    !.query = mm[i].turn[1].user_message,
                                    !.n = 2, !.result = o.context,
                                    !.hits = o.memories]
    /\ UNCHANGED <<clock, db, collections, nextUuid, nsaves>>

(* llm.generate(messages, system_prompt) returns after dt ticks. *)
TurnGenerate(i, dt) ==
    /\ Live(i) /\ InTurn(i, "context_read")
    /\ clock + dt <= MaxClock
    /\ clock' = clock + dt
    /\ mm' = [mm EXCEPT ![i].turn[1].at = "generated"]
    /\ last' = [NoLast EXCEPT !.op = "turn_generate", !.m = i]
    /\ UNCHANGED <<db, collections, nextUuid, nsaves>>

(* add_message("assistant", bot_response) and the return. *)
TurnAddAssistant(i, bot_response) ==
    /\ Live(i) /\ InTurn(i, "generated")
    /\ LET r == MMSaveMessage(db, collections, mm[i], clock, "assistant",
                              bot_response, mm[i].personality, None, FALSE)
       IN  /\ db' = r.db
           /\ collections' = r.collections
           /\ nsaves' = NsavesAfter(nsaves, db, mm[i].session_id, r.raised)
           /\ last' = [NoLast EXCEPT !.op = "turn_assistant", !.m = i,
                                     !.role = "assistant", !.raised = r.raised]
    /\ mm' = [mm EXCEPT ![i].turn = <<>>]
    /\ UNCHANGED <<clock, nextUuid>>

(* Another MemoryManager of the process saves a message between two turns:
   send_message is a synchronous call, nothing runs inside it. *)
SaveBetweenTurns(j, content) ==
    /\ \A i \in Managers : mm[i].turn = <<>>
    /\ SaveMessage(j, "user", content, "Yui", None, FALSE)

NextTurn ==
    \/ Tick
    \/ NewConversationManager(1, "yui", UserAl, FALSE)
    \/ \E u \in StoreUsersOf(2) : NewMemoryManager(2, u, None, FALSE)
    \/ \E c \in Contents : SaveBetweenTurns(2, c)
    \/ \E q \in Keywords \cup {Hello} : TurnAddUser(1, q)
    \/ TurnGetContext(1)
    \/ \E dt \in {0, 1} : TurnGenerate(1, dt)
    \/ TurnAddAssistant(1, Reply)

SpecTurn == Init /\ [][NextTurn]_vars

----
(* Properties *)

(* The rows of a session id, in rowid order. *)
SessionMessages(d, session_id) ==
    SelectSeq(d.conversations, LAMBDA r : r.session_id = session_id)

(* C1: every session row's message_count equals the number of save_message
   calls completed on its session id since the row was created, whatever
   the roles and however the saves of several sessions interleave. *)
C1_CounterCorrect ==
    \A k \in DOMAIN db.sessions :
        db.sessions[k].message_count = nsaves[db.sessions[k].session_id]

(* Two sessions have each counted a save, one of them an assistant's. *)
C1_Witness ==
    \E k1, k2 \in DOMAIN db.sessions :
        /\ db.sessions[k1].session_id # db.sessions[k2].session_id
        /\ db.sessions[k1].message_count = 1
        /\ db.sessions[k2].message_count = 1
        /\ \E r \in DOMAIN db.conversations :
              /\ db.conversations[r].session_id = db.sessions[k1].session_id
              /\ db.conversations[r].role = "assistant"

(* C2: get_session_history (with a limit that covers the session) returns
   the session's messages in the order save_message was invoked, roles,
   content and emotion preserved, also when saves got equal timestamps. *)
C2_HistoryInSaveOrder ==
    (last.op = "get_recent_memory"
       /\ Len(SessionMessages(db, mm[last.m].session_id)) <= last.n)
    => LET saved == SessionMessages(db, mm[last.m].session_id)
       IN  last.result = [k \in DOMAIN saved |-> HistoryRow(saved[k])]

(* C3: after switch_personality the manager holds a session id under which
   an open session row with the new personality exists, and a turn sent
   afterwards is stored under the manager's session. *)
C3_SwitchMintsSession ==
    /\ last.op = "switch_personality" =>
          /\ mm[last.m].session_id # None
          /\ \E k \in DOMAIN db.sessions :
                /\ db.sessions[k].session_id = mm[last.m].session_id
                /\ db.sessions[k].personality = mm[last.m].personality
                /\ db.sessions[k].ended_at = NullTs
    /\ last.op = "send_message" =>
          \E r \in DOMAIN db.conversations :
              /\ db.conversations[r].session_id = mm[last.m].session_id
              /\ db.conversations[r].content = last.query

(* C4: a search by a manager of one user never returns a fragment that a
   manager of a different user indexed. *)
C4_Isolation ==
    last.op = "search_semantic_memory" =>
        \A k \in DOMAIN last.hits :
            last.hits[k].indexed_by = mm[last.m].user_name

(* C5: a search whose Vector Index query fails, or whose manager has the
   index disabled, does not raise and returns a result of
   search_conversations for the same user, query and n; with the index
   disabled no Vector Index call is made. *)
C5_Degradation ==
    (last.op = "search_semantic_memory"
       /\ (last.vfail \/ ~mm[last.m].vector_enabled))
    => /\ ~last.raised
       /\ last.result \in SearchConversations(db, mm[last.m].user_name,
                                              last.query, last.n)
       /\ ~mm[last.m].vector_enabled => ~last.vec_called

(* A failing query fell back to a keyword search that found something. *)
C5_Witness ==
    /\ last.op = "search_semantic_memory"
    /\ mm[last.m].vector_enabled
    /\ last.vfail
    /\ last.vec_called
    /\ last.result # <<>>

(* C6: memory.save_message of a turn does not raise and leaves the message
   in the Relational Store under the manager's current session_id. *)
C6_SaveAlwaysWritesRelational ==
    last.op = "send_message" =>
        /\ ~last.raised
        /\ \E r \in DOMAIN db.conversations :
              /\ db.conversations[r].session_id = mm[last.m].session_id
              /\ db.conversations[r].role = "user"
              /\ db.conversations[r].content = last.query

(* C7: once a session row is ended, no step adds a message under its id or
   changes its message_count. *)
C7_EndedIsTerminal ==
    [][\A k \in DOMAIN db.sessions :
         db.sessions[k].ended_at # NullTs =>
           LET s == db.sessions[k].session_id
           IN  /\ SessionMessages(db', s) = SessionMessages(db, s)
               /\ \A j \in DOMAIN db'.sessions :
                     db'.sessions[j].session_id = s =>
                       db'.sessions[j].message_count = db.sessions[k].message_count]_vars

(* C8: no two session rows share a session id, and start_session
   (create_session) on an id that has a row leaves the sessions table as it
   was, whoever calls it and whatever personality it passes. *)
C8_CreateSessionIdempotent ==
    /\ [](\A j, k \in DOMAIN db.sessions :
            db.sessions[j].session_id = db.sessions[k].session_id => j = k)
    /\ [][\A i \in Managers, p \in Personalities :
            (StartSession(i, p) /\ SessionIndices(db, mm[i].session_id) # {})
            => db'.sessions = db.sessions]_vars

(* start_session was called on an id whose row belongs to another user and
   carries another personality than a caller of slot 1 passes. *)
C8_Witness ==
    /\ last.op = "start_session"
    /\ \E k \in DOMAIN db.sessions :
          /\ db.sessions[k].session_id = mm[last.m].session_id
          /\ db.sessions[k].user_name # mm[last.m].user_name
          /\ db.sessions[k].personality = "Friday"
          /\ last.m = 1

(* C9: end_session on a session id that has no row, or whose row is already
   ended, changes nothing in the store. *)
C9_EndSessionNoOp ==
    [][\A i \in Managers :
         (/\ MMEndSession(i)
          /\ \A k \in SessionIndices(db, mm[i].session_id) :
                db.sessions[k].ended_at # NullTs)
         => db' = db]_vars

(* C10: a step changes a collection only by appending one fragment, and
   only as a save_message with role user on a manager with vector_enabled,
   the fragment carrying the content of the user row just stored. *)
C10_OnlyUserContentIndexed ==
    [][\A c \in CollectionNames :
         collections'[c] # collections[c] =>
           /\ last'.op = "save_message"
           /\ last'.role = "user"
           /\ mm[last'.m].vector_enabled
           /\ mm[last'.m].collection = c
           /\ Len(collections'[c]) = Len(collections[c]) + 1
           /\ SubSeq(collections'[c], 1, Len(collections[c])) = collections[c]
           /\ LET f == collections'[c][Len(collections'[c])]
                  r == db'.conversations[Len(db'.conversations)]
              IN  r.role = "user" /\ f.document = r.content]_vars

(* An assistant's message was saved by a manager with the index enabled,
   whose collection holds the one user message saved before. *)
C10_Witness ==
    /\ last.op = "save_message"
    /\ last.role = "assistant"
    /\ ~last.raised
    /\ mm[last.m].vector_enabled
    /\ Len(collections[mm[last.m].collection]) = 1
    /\ Len(db.conversations) = 2

(* C11: in every durable state of the store, whatever failed or crashed
   inside save_message before, the message_count of a session row equals the
   number of messages stored under its id (the saves being made on
   sessions that have their row). *)
C11_InsertAndCountAtomic ==
    \A k \in DOMAIN db.sessions :
        db.sessions[k].message_count =
            Len(SessionMessages(db, db.sessions[k].session_id))

(* The session ids some row of the store or some manager carries. *)
IdsInUse ==
    {db.sessions[k].session_id : k \in DOMAIN db.sessions}
      \cup {db.conversations[k].session_id : k \in DOMAIN db.conversations}
      \cup {mm[j].session_id : j \in Managers}

(* C12: a clear_session_memory step gives the manager a session id that
   differs from its previous one and that no row and no manager carries,
   and leaves the Relational Store and the Vector Index as they were, so
   that get_user_history returns what it returned before. *)
C12_ClearTouchesNoStore ==
    [][\A i \in Managers :
         ClearSessionMemory(i) =>
           /\ mm'[i].session_id # mm[i].session_id
           /\ mm'[i].session_id \notin IdsInUse
           /\ db' = db
           /\ collections' = collections
           /\ \A n \in Limits :
                 GetUserHistory(db', mm[i].user_name, n)
                   = GetUserHistory(db, mm[i].user_name, n)]_vars

(* A manager with a stored, indexed message has cleared: its new session
   id has no row, the old message and fragment are still there. *)
C12_Witness ==
    /\ last.op = "clear_session_memory"
    /\ SessionIndices(db, mm[last.m].session_id) = {}
    /\ \E k \in DOMAIN db.conversations :
          /\ db.conversations[k].user_name = mm[last.m].user_name
          /\ db.conversations[k].session_id # mm[last.m].session_id
    /\ mm[last.m].vector_enabled
    /\ Len(collections[mm[last.m].collection]) >= 1
    /\ \E k \in DOMAIN db.sessions : db.sessions[k].message_count >= 1

(* C13: every step leaves the messages stored before it in place and
   unchanged: the message table after the step extends the table before
   it. *)
C13_MessagesAppendOnly ==
    [][/\ Len(db'.conversations) >= Len(db.conversations)
       /\ SubSeq(db'.conversations, 1, Len(db.conversations))
            = db.conversations]_vars

(* A session with two stored messages has been ended. *)
C13_Witness ==
    \E k \in DOMAIN db.sessions :
        /\ db.sessions[k].ended_at # NullTs
        /\ db.sessions[k].message_count = 2
        /\ Len(SessionMessages(db, db.sessions[k].session_id)) = 2

(* The last n elements of the sequence q. *)
LastN(q, n) == SubSeq(q, Len(q) - Min(n, Len(q)) + 1, Len(q))

(* C14: get_session_history(s, limit) returns at most limit rows, all of
   them messages of s, namely the most recently saved ones, with
   timestamps that do not decrease along the result; an empty list for a
   session without messages. *)
C14_HistoryWindow ==
    last.op = "get_recent_memory" =>
        LET saved  == SessionMessages(db, mm[last.m].session_id)
            recent == LastN(saved, last.n)
        IN  /\ Len(last.result) <= last.n
            /\ \A k \in DOMAIN last.result :
                  \E j \in DOMAIN saved : last.result[k] = HistoryRow(saved[j])
            /\ {last.result[k] : k \in DOMAIN last.result}
                  = {HistoryRow(recent[k]) : k \in DOMAIN recent}
            /\ \A j, k \in DOMAIN last.result :
                  j < k => last.result[j].timestamp <= last.result[k].timestamp
            /\ saved = <<>> => last.result = <<>>

(* The profile rows of a user. *)
ProfileIndices(d, user_name) ==
    {k \in DOMAIN d.user_profiles : d.user_profiles[k].user_name = user_name}

(* C15: no user has two profile rows; a get_or_create_user_profile call
   for a user without a profile creates it with empty preferences and
   returns it; a call for a user with a profile adds no row, returns the
   created_at the row has always had, keeps the preferences, and moves
   last_seen forward or leaves it. *)
C15_OneProfilePerUser ==
    /\ [](\A u \in Users : Cardinality(ProfileIndices(db, u)) <= 1)
    /\ [][\A u \in Users :
            (last'.op = "get_or_create_user_profile" /\ last'.query = u) =>
              LET ret == last'.result[1]
                  new == db'.user_profiles[CHOOSE k \in ProfileIndices(db', u) : TRUE]
              IN  /\ Cardinality(ProfileIndices(db', u)) = 1
                  /\ ProfileIndices(db, u) = {} =>
                        /\ new.preferences = EmptyPreferences
                        /\ ret = new
                        /\ Len(db'.user_profiles) = Len(db.user_profiles) + 1
                  /\ ProfileIndices(db, u) # {} =>
                        LET old == db.user_profiles[CHOOSE k \in ProfileIndices(db, u) : TRUE]
                        IN  /\ Len(db'.user_profiles) = Len(db.user_profiles)
                            /\ ret.created_at = old.created_at
                            /\ new.created_at = old.created_at
                            /\ new.preferences = old.preferences
                            /\ ret.last_seen = old.last_seen
                            /\ new.last_seen >= old.last_seen]_vars

(* get_or_create_user_profile was called again, a second later, for a user
   whose profile carries preferences, while another user has a profile
   too. *)
C15_Witness ==
    /\ last.op = "get_or_create_user_profile"
    /\ Len(db.user_profiles) = 2
    /\ \E k \in ProfileIndices(db, last.query) :
          /\ db.user_profiles[k].last_seen > db.user_profiles[k].created_at
          /\ db.user_profiles[k].preferences # EmptyPreferences
          /\ last.result[1].created_at = db.user_profiles[k].created_at

(* C16: a construction fails exactly when the Relational Store fails to
   open; a failing vector setup yields a manager with vector_enabled
   false, a working one a manager with vector_enabled true; after a
   construction that succeeded the user has a profile. *)
C16_ConstructionProtocol ==
    last.op = "__init__" =>
        /\ last.raised <=> last.dbfail
        /\ last.raised => mm[last.m].state = "none"
        /\ ~last.raised =>
              /\ mm[last.m].state = "live"
              /\ mm[last.m].user_name = last.query
              /\ mm[last.m].vector_enabled <=> ~last.vfail
              /\ ProfileIndices(db, last.query) # {}

(* A manager was constructed although the vector setup failed. *)
C16_Witness ==
    /\ last.op = "__init__"
    /\ last.vfail /\ ~last.dbfail
    /\ mm[last.m].state = "live"
    /\ ~mm[last.m].vector_enabled

(* C17: a save_message step whose Relational Store write fails raises
   and writes no fragment; a save that raises, for whatever reason, leaves
   the Vector Index as it was. *)
C17_StoreFailurePropagates ==
    [][last'.op = "save_message" =>
         /\ last'.dbfail => (last'.raised /\ collections' = collections)
         /\ last'.raised => collections' = collections]_vars

(* A user message of a manager with the Vector Index enabled met a failing
   store, after an earlier message of the manager was stored and indexed. *)
C17_Witness ==
    /\ last.op = "save_message"
    /\ last.dbfail /\ last.raised
    /\ last.role = "user"
    /\ mm[last.m].vector_enabled
    /\ Len(collections[mm[last.m].collection]) = 1
    /\ Len(SessionMessages(db, mm[last.m].session_id)) = 1

(* sub occurs in str as a substring, letter case ignored. *)
Contains(sub, str) ==
    \E i \in 0..(Len(str) - Len(sub)) :
        SubSeq(Lower(str), i + 1, i + Len(sub)) = Lower(sub)

(* C18: with the Vector Index disabled, search_semantic_memory(q, n)
   returns at most n rows, each a stored message of the manager's user
   that contains q as a substring, newest first; when no more than n
   messages of the user contain q, all of them are returned. *)
C18_KeywordFallback ==
    (last.op = "search_semantic_memory" /\ ~mm[last.m].vector_enabled) =>
        LET own == {j \in DOMAIN db.conversations :
                       db.conversations[j].user_name = mm[last.m].user_name}
            hit == {j \in own : Contains(last.query, db.conversations[j].content)}
        IN  /\ Len(last.result) <= last.n
            /\ \A k \in DOMAIN last.result :
                  /\ \E j \in own : SearchRow(db.conversations[j]) = last.result[k]
                  /\ Contains(last.query, last.result[k].content)
            /\ \A j, k \in DOMAIN last.result :
                  j < k => last.result[j].timestamp >= last.result[k].timestamp
            /\ Cardinality(hit) <= last.n =>
                  \A j \in hit :
                      \E k \in DOMAIN last.result :
                          last.result[k] = SearchRow(db.conversations[j])

(* C19: get_stats(user) reports the number of the user's stored messages,
   the number of the user's session rows, and a personality with the most
   sessions of the user ('None' when the user has no session); rows of
   other users do not count. *)
C19_StatsCorrect ==
    last.op = "get_stats" =>
        LET u == last.query
            r == last.result[1]
            msgs == {i \in DOMAIN db.conversations :
                        db.conversations[i].user_name = u}
            sess == {i \in DOMAIN db.sessions : db.sessions[i].user_name = u}
        IN  /\ r.total_messages = Cardinality(msgs)
            /\ r.total_sessions = Cardinality(sess)
            /\ sess = {} => r.favorite_personality = "None"
            /\ sess # {} =>
                  /\ \E i \in sess : db.sessions[i].personality = r.favorite_personality
                  /\ \A p \in Personalities :
                        SessionCount(db, u, p)
                          <= SessionCount(db, u, r.favorite_personality)

(* The user has two sessions with one personality and one with the other,
   another user has a message, and get_stats names the first
   personality. *)
C19_Witness ==
    /\ last.op = "get_stats"
    /\ last.query = UserAl
    /\ SessionCount(db, UserAl, "Yui") = 2
    /\ SessionCount(db, UserAl, "Friday") = 1
    /\ \E i \in DOMAIN db.conversations : db.conversations[i].user_name = UserBo
    /\ last.result[1].favorite_personality = "Yui"
    /\ last.result[1].total_messages = 0

(* C20: get_relevant_context(message, max_items) does not raise and
   returns one string per memory of search_semantic_memory(message,
   max_items), in the same order and never more than max_items, the k-th
   string carrying the timestamp and the content of the k-th memory; no
   memories give an empty list. *)
C20_ContextFollowsSearch ==
    last.op = "get_relevant_context" =>
        /\ ~last.raised
        /\ last.hits \in {o.result :
                            o \in MMSearchSemanticMemory(db, collections, mm[last.m],
                                                         last.query, last.n,
                                                         last.vfail)}
        /\ Len(last.result) = Len(last.hits)
        /\ Len(last.result) <= last.n
        /\ \A k \in DOMAIN last.result :
              /\ last.result[k][2] = last.hits[k].timestamp
              /\ last.result[k][4] = last.hits[k].content
        /\ last.hits = <<>> => last.result = <<>>

(* A context of two different snippets was returned. *)
C20_Witness ==
    /\ last.op = "get_relevant_context"
    /\ Len(last.result) = 2
    /\ last.result[1][4] # last.result[2][4]


(* C21: vector_enabled is resolved when the MemoryManager is constructed and
   no later operation changes it: across every step (save_message,
   search_semantic_memory, start_session, end_session,
   clear_session_memory, with or without a failing Vector Index call) a
   live manager keeps the value it had, and the flag is set only where the
   collection was opened. *)
C21_FlagFixedAtConstruction ==
    /\ [](\A i \in Managers :
            Live(i) => (mm[i].vector_enabled <=> mm[i].collection # <<>>))
    /\ [][\A i \in Managers :
            Live(i) /\ mm'[i].state = "live"
                => mm'[i].vector_enabled = mm[i].vector_enabled]_vars

(* A search whose index query failed, on a manager that had already had an
   index write fail, the flag still set. *)
C21_Witness ==
    /\ last.op = "search_semantic_memory" /\ last.vfail
    /\ mm[last.m].vector_enabled
    /\ collections[mm[last.m].collection] = <<>>
    /\ \E r \in 1..Len(db.conversations) :
          db.conversations[r].session_id = mm[last.m].session_id


(* C22: a turn whose Vector Index is unavailable (it failed to initialise,
   or the index write of the turn failed) is still carried out in full:
   send_message does not fail to save, and both the user message and the
   assistant's reply are in the Relational Store under the conversation's
   session. *)
C22_TurnSurvivesIndexFailure ==
    (last.op = "send_message" /\ (last.vfail \/ ~mm[last.m].vector_enabled)) =>
        /\ ~last.raised
        /\ \E r \in DOMAIN db.conversations :
              /\ db.conversations[r].session_id = mm[last.m].session_id
              /\ db.conversations[r].role = "user"
              /\ db.conversations[r].content = last.query
              /\ \E a \in DOMAIN db.conversations :
                    /\ a > r
                    /\ db.conversations[a].session_id = mm[last.m].session_id
                    /\ db.conversations[a].role = "assistant"
                    /\ db.conversations[a].content = Reply


(* C23: every user-role save_message that reaches the Vector Index (the
   manager has vector_enabled, the store's write succeeded, the index write
   did not fail) adds its own fragment: its id differs from every id
   already in the collection, so the collection grows by one. *)
C23_FragmentIdsUnique ==
    [][\A i \in Managers :
         (/\ last'.op = "save_message" /\ last'.m = i /\ last'.role = "user"
          /\ ~last'.raised /\ ~last'.vfail
          /\ mm[i].vector_enabled)
         => /\ FragmentId(mm[i].session_id, clock)
                  \notin FragmentIds(collections[mm[i].collection])
            /\ Len(collections'[mm[i].collection])
                  = Len(collections[mm[i].collection]) + 1]_vars


(* C26: process_message never raises: it returns None when no intent is
   detected or the tool did not succeed, and a formatted text only when the
   tool succeeded. *)
C26_ProcessMessageNeverRaises ==
    last.op = "process_message" =>
        /\ ~last.raised
        /\ last.result # <<>> =>
              /\ DetectIntent(last.query) # <<>>
              /\ last.hits = <<"ok">>


(* C24: once a connection's handler has terminated, the `conversations`
   dict no longer holds the entry it added, whatever ended the handler. *)
C24_RegistryCleanedUp ==
    \A i \in Managers : mm[i].handler = "terminated" => i \notin Registry


(* C25: two conversations that are live at the same time never hold the
   same session identifier, so no message of one is in the other's session
   history. *)
C25_LiveSessionsDistinct ==
    \A i, j \in Managers :
        (i # j /\ Live(i) /\ Live(j) /\ mm[i].cm /\ mm[j].cm)
            => mm[i].session_id # mm[j].session_id


(* The sum of message_count over the session rows of a user. *)
RECURSIVE SumCounts(_, _, _)
SumCounts(d, user_name, k) ==
    IF k = 0 THEN 0
    ELSE SumCounts(d, user_name, k - 1)
           + (IF d.sessions[k].user_name = user_name
              THEN d.sessions[k].message_count ELSE 0)

(* C27: under every sequence of ConversationManager operations, each stored
   message's session_id has exactly one session row, of the same user; each
   session row's message_count is the number of stored messages with its
   session_id; so get_stats' total_messages of a user is the sum of the
   message counts of the user's sessions. *)
C27_MessagesHaveSessions ==
    /\ \A r \in DOMAIN db.conversations :
          /\ Cardinality(SessionIndices(db, db.conversations[r].session_id)) = 1
          /\ \A k \in SessionIndices(db, db.conversations[r].session_id) :
                db.sessions[k].user_name = db.conversations[r].user_name
    /\ \A k \in DOMAIN db.sessions :
          db.sessions[k].message_count
             = Len(SessionMessages(db, db.sessions[k].session_id))
    /\ \A u \in Users : \A st \in GetStats(db, u) :
          st.total_messages = SumCounts(db, u, Len(db.sessions))

(* A turn stored under the session that clear_history opened, the
   conversation's first session left without messages. *)
C27_Witness ==
    /\ last.op = "send_message" /\ ~last.raised
    /\ Len(db.conversations) = 2
    /\ Len(db.sessions) = 2
    /\ db.sessions[1].session_id # mm[last.m].session_id
    /\ db.conversations[1].session_id = mm[last.m].session_id
    /\ \E u \in Users : \E st \in GetStats(db, u) : st.total_messages = 2


(* C28: the Vector Index never runs ahead of the Relational Store: every
   fragment of every collection has a stored user-role message with the
   fragment's content and session id. *)
C28_IndexBehindStore ==
    \A c \in CollectionNames : \A k \in DOMAIN collections[c] :
        \E r \in DOMAIN db.conversations :
            /\ db.conversations[r].role = "user"
            /\ db.conversations[r].content = collections[c][k].document
            /\ db.conversations[r].session_id = collections[c][k].metadata.session_id

(* A user message was stored and indexed after an earlier one of the same
   collection, both fragments present. *)
C28_Witness ==
    /\ last.op = "save_message" /\ last.role = "user"
    /\ ~last.raised /\ ~last.dbfail /\ ~last.vfail
    /\ mm[last.m].vector_enabled
    /\ Len(collections[mm[last.m].collection]) = 2
    /\ Len(db.conversations) = 2


(* C29: after every add_message, conversation_history holds at most
   max_history entries and is the most recent min(max_history, k) of the k
   messages added since the construction or the last clear_history, in
   the order they were added, whether or not the save succeeded. *)
C29_HistoryIsRecentWindow ==
    \A i \in Managers :
        (Live(i) /\ mm[i].cm) =>
            /\ Len(mm[i].conversation_history) <= MaxHistory
            /\ Len(mm[i].conversation_history) = Min(MaxHistory, Len(mm[i].added))
            /\ mm[i].conversation_history = LastN(mm[i].added, MaxHistory)

(* More than max_history messages were added after a clear_history, the
   last of them not saved, and the window starts after the oldest. *)
C29_Witness ==
    /\ last.op = "add_message" /\ last.dbfail
    /\ Len(mm[1].added) > MaxHistory
    /\ Len(db.sessions) = 2
    /\ Len(db.conversations) > 0
    /\ mm[1].conversation_history[1] = mm[1].added[Len(mm[1].added) - MaxHistory + 1]
    /\ mm[1].conversation_history[1] # mm[1].added[1]


(* C30: inside send_message the user message is in the Relational Store
   from before the context is retrieved until the end of the turn, the
   assistant's reply is stored only after generate has returned, and the
   context retrieved by a conversation without Vector Index has the
   turn's own user message as its first item. *)
C30_TurnOrder ==
    \A i \in Managers :
        (Live(i) /\ mm[i].turn # <<>>) =>
            LET t == mm[i].turn[1]
                own(r) == /\ r.session_id = mm[i].session_id
                          /\ r.role = "user"
                          /\ r.content = t.user_message
                          /\ r.timestamp = CurrentTimestamp(t.saved_at)
            IN  /\ \E r \in DOMAIN db.conversations : own(db.conversations[r])
                /\ \A r \in DOMAIN db.conversations :
                      (/\ db.conversations[r].session_id = mm[i].session_id
                       /\ db.conversations[r].role = "assistant")
                      => \E u \in r + 1 .. Len(db.conversations) :
                            own(db.conversations[u])
                /\ (t.at \in {"context_read", "generated"} /\ ~mm[i].vector_enabled)
                      => /\ t.memories # <<>>
                         /\ own(t.memories[1])

====
